---- MODULE Spec2Model ----
(***************************************************************************)
(* A model of src/DamonsTitleCard.py: one DamonsTitleCard instance after   *)
(* __init__, the property format_text_commands (which reads and writes the *)
(* instance), the property gradient_command, create(), and the static      *)
(* predicate is_custom_font.                                               *)
(*                                                                         *)
(* Strings that the code splits, upper-cases or interpolates into a label  *)
(* are sequences of one-character strings.  An ImageMagick command element *)
(* (one f-string of a returned list) is a tuple <<option, argument>> or    *)
(* <<option>>; a command list is a sequence of those, in list order.       *)
(* Floating point quantities are held as integers in units of 1/100        *)
(* (font_size = 100 is 1.0); products keep the unit of the scaled factor.  *)
(***************************************************************************)
EXTENDS Integers, Sequences, FiniteSets, TLC

\* ---------------------------------------------------------------- bounds
\* Largest number of pieces an episode text has beyond the five that the
\* split unpacks (they end up, spaces included, in episode_number).
MaxExtra == 1
\* Largest number of evaluations of format_text_commands on one instance.
MaxBuilds == 2

\* ------------------------------------------------------- class constants
TITLE_COLOR == "#EBEBEB"
TITLE_FONT == "olivier/Montserrat-Bold.ttf"
EPISODE_PREFIX_FONT == "star_wars/HelveticaNeue.ttc"
EPISODE_NUMBER_FONT == "star_wars/HelveticaNeue-Bold.ttf"
STROKE_COLOR == "black"
SERIES_COUNT_TEXT_COLOR == "#CFCFCF"
GRADIENT_IMAGE == "GRADIENT.png"
\* 1.0 in units of 1/100
ONE == 100

\* ---------------------------------------------------------------- strings
SPACE == " "
ZERO == <<"Z", "E", "R", "O">>
SPECIAL == <<"S", "P", "E", "C", "I", "A", "L">>

\* str.upper() on one character (the characters the inputs are drawn from)
UpperChar(c) ==
    CASE c = "z" -> "Z"
      [] c = "e" -> "E"
      [] c = "r" -> "R"
      [] c = "o" -> "O"
      [] c = "s" -> "S"
      [] c = "t" -> "T"
      [] OTHER -> c

\* str.upper()
upper(s) == [i \in 1..Len(s) |-> UpperChar(s[i])]

\* index of the first sep in s, 0 when there is none (str.find + 1)
RECURSIVE FindFrom(_, _, _)
FindFrom(s, sep, i) ==
    IF i > Len(s) THEN 0
    ELSE IF s[i] = sep THEN i
    ELSE FindFrom(s, sep, i + 1)

\* str.split(sep, maxsplit) for a one-character sep: cut at each of the
\* first maxsplit occurrences of sep; empty pieces are kept.
RECURSIVE split(_, _, _)
split(s, sep, maxsplit) ==
    LET i == FindFrom(s, sep, 1) IN
    IF maxsplit = 0 \/ i = 0 THEN <<s>>
    ELSE <<SubSeq(s, 1, i - 1)>> \o split(SubSeq(s, i + 1, Len(s)), sep, maxsplit - 1)

\* sep.join(parts)
RECURSIVE join(_, _)
join(sep, parts) ==
    IF Len(parts) = 0 THEN <<>>
    ELSE IF Len(parts) = 1 THEN parts[1]
    ELSE parts[1] \o <<sep>> \o join(sep, Tail(parts))

\* -------------------------------------------------------------- the state
VARIABLES
    self,           \* the instance's __slots__ (plus blur, grayscale of the parent)
    constructed,    \* the values __init__ stored in the instance
    labels,         \* the locals top_line .. episode_number of the last evaluation
    text_commands,  \* the list the last evaluation of format_text_commands returned
    command,        \* the list create() joined into the command it ran
    builds,         \* evaluations of format_text_commands so far
    font,           \* argument of the last is_custom_font call
    extras,         \* argument of the last is_custom_font call
    custom          \* [called, ret] of the last is_custom_font call

vars == <<self, constructed, labels, text_commands, command, builds, font, extras, custom>>

\* ------------------------------------------------- format_text_commands
\* Lines 244-248: the five names are bound by unpacking the split; when the
\* unpacking raises (the list has not exactly five items) the bare except
\* stores the upper-cased text in top_line and the five names stay "".
ParseEpisodeText(episode_text) ==
    LET parts == split(upper(episode_text), SPACE, 4) IN
    IF Len(parts) = 5
    THEN [top_line |-> <<>>,
          season_prefix |-> parts[1], season_number |-> parts[2],
          separator |-> parts[3],
          episode_prefix |-> parts[4], episode_number |-> parts[5]]
    ELSE [top_line |-> upper(episode_text),
          season_prefix |-> <<>>, season_number |-> <<>>,
          separator |-> <<>>,
          episode_prefix |-> <<>>, episode_number |-> <<>>]

\* Line 256: the branch taken for "Standard Case with Season and Episode"
StandardCase(L) == Len(L.top_line) <= 0

\* Lines 259-272
SeasonCommands(hide_season_text, L) ==
    IF StandardCase(L) /\ ~hide_season_text
    THEN IF L.season_number = ZERO
         THEN << <<"-font", EPISODE_NUMBER_FONT>>, <<"label:", SPECIAL>> >>
         ELSE << <<"-font", EPISODE_PREFIX_FONT>>, <<"label:", L.season_prefix>>,
                 <<"-font", EPISODE_NUMBER_FONT>>, <<"label:", L.season_number>> >>
    ELSE <<>>

\* A season block that keeps the old flag: the assignment of line 265 lost.
HideEpisodeKept(hide_season_text, hide_episode_text, L) == hide_episode_text

\* Line 265: self.hide_episode_text once the season block has run
HideEpisodeAfterSeason(hide_season_text, hide_episode_text, L) ==
    IF StandardCase(L) /\ ~hide_season_text /\ L.season_number = ZERO
    THEN TRUE
    ELSE hide_episode_text

\* A separator that looks at the season flag only.
SeparatorSeasonOnly(hide_season_text, hide_episode_text, L) ==
    IF StandardCase(L) /\ ~hide_season_text
    THEN << <<"label:", L.separator>> >>
    ELSE <<>>

\* Lines 274-277
SeparatorCommands(hide_season_text, hide_episode_text, L) ==
    IF StandardCase(L) /\ ~hide_season_text /\ ~hide_episode_text
    THEN << <<"label:", L.separator>> >>
    ELSE <<>>

\* Lines 279-285
EpisodeCommands(hide_episode_text, L) ==
    IF StandardCase(L) /\ ~hide_episode_text
    THEN << <<"-font", EPISODE_PREFIX_FONT>>, <<"label:", L.episode_prefix>>,
            <<"-font", EPISODE_NUMBER_FONT>>, <<"label:", L.episode_number>> >>
    ELSE <<>>

\* Lines 295-306: the season and episode scope
SeasonEpisodeGroup(s, season_commands, separator_commands, episode_commands) ==
    << <<"\\(">>,
       <<"-gravity", "west">>,
       <<"-fill", SERIES_COUNT_TEXT_COLOR>>,
       <<"-pointsize", 90 * s.episode_text_font_size>>,
       <<"-kerning", 10 * s.episode_text_font_size>>,
       <<"-stroke", s.stroke_color>>,
       <<"-strokewidth", 2>> >>
    \o season_commands \o separator_commands \o episode_commands
    \o << <<"+smush", 40>>, <<"\\)">> >>

\* One pass of the main text (lines 313-321 and 325-333)
TitlePass(s, color, strokewidth) ==
    << <<"-fill", color>>,
       <<"-font", s.font_file>>,
       <<"-kerning", 5 * s.font_kerning>>,                 \* 0.5 * kerning, in 1/1000
       <<"-pointsize", 200 * s.font_size>>,
       <<"-interline-spacing", s.title_interline_spacing + s.font_interline_spacing>>,
       <<"-interword-spacing", 50 + s.font_interword_spacing>>,
       <<"-stroke", color>>,
       <<"-strokewidth", strokewidth>>,
       <<"label:", s.title_text>> >>

\* The two passes the other way round: fill first, outline on top.
MainTextFillFirst(s) ==
    << <<"\\(">>, <<"-gravity", "west">> >>
    \o TitlePass(s, s.font_color, 0)
    \o TitlePass(s, s.stroke_color, 12)
    \o << <<"-composite">>, <<"\\)">> >>

\* Lines 309-337: the main text scope
MainTextGroup(s) ==
    << <<"\\(">>, <<"-gravity", "west">> >>
    \o TitlePass(s, s.stroke_color, 12)
    \o TitlePass(s, s.font_color, 0)
    \o << <<"-composite">>, <<"\\)">> >>

\* Lines 288-347: the returned list
TextCommandList(s, season_commands, separator_commands, episode_commands) ==
    << <<"-gravity", "west">>, <<"\\(">> >>
    \o SeasonEpisodeGroup(s, season_commands, separator_commands, episode_commands)
    \o MainTextGroup(s)
    \o << <<"-gravity", "west">>, <<"-smush", 50>>, <<"\\)">>,
          <<"-gravity", "southwest">>, <<"-geometry", "+150+100">>, <<"-composite">> >>

\* The property with the assignment of line 265 moved behind the reads of
\* lines 274 and 279: the list is built from the flag as it was on entry.
format_text_commands_late_write(s) ==
    LET L == ParseEpisodeText(s.episode_text) IN
    [ret |-> TextCommandList(s,
                SeasonCommands(s.hide_season_text, L),
                SeparatorCommands(s.hide_season_text, s.hide_episode_text, L),
                EpisodeCommands(s.hide_episode_text, L)),
     labels |-> L,
     hide_episode_text |->
        HideEpisodeAfterSeason(s.hide_season_text, s.hide_episode_text, L)]

\* Lines 227-347: the property.  ret is the returned list, labels the locals,
\* hide_episode_text the value of self.hide_episode_text on return; lines 274
\* and 279 read the field after line 265 may have written it.
format_text_commands(s) ==
    LET L == ParseEpisodeText(s.episode_text)
        hide == HideEpisodeAfterSeason(s.hide_season_text, s.hide_episode_text, L)
    IN
    [ret |-> TextCommandList(s,
                SeasonCommands(s.hide_season_text, L),
                SeparatorCommands(s.hide_season_text, hide, L),
                EpisodeCommands(hide, L)),
     labels |-> L,
     hide_episode_text |-> hide]

\* ----------------------------------------------------- gradient_command
\* A gradient that is overlaid whatever the flag says.
gradient_always(s) ==
    << <<"image", GRADIENT_IMAGE>>, <<"-composite">> >>

\* Lines 351-363
gradient_command(s) ==
    IF ~s.omit_gradient
    THEN << <<"image", GRADIENT_IMAGE>>, <<"-composite">> >>
    ELSE <<>>

\* --------------------------------------------------------------- create
\* BaseCardType.resize_and_style: the background resize, then the blur and
\* the grayscale the request asks for.
resize_and_style(s) ==
    << <<"-resize", "background">> >>
    \o (IF s.blur THEN << <<"-blur">> >> ELSE <<>>)
    \o (IF s.grayscale THEN << <<"-colorspace", "gray">> >> ELSE <<>>)

\* BaseCardType.resize_output: the final resize
resize_output(s) == << <<"-resize", "output">> >>

\* Lines 371-380: the list that is joined into the command, given the list
\* format_text_commands returned
CommandList(s, text) ==
    << <<"convert", s.source_file>> >>
    \o resize_and_style(s)
    \o gradient_command(s)
    \o text
    \o resize_output(s)
    \o << <<"image", s.output_file>> >>

\* -------------------------------------------------------- is_custom_font
ExtraPresentAndNot(e, key, default) == key \in DOMAIN e /\ e[key] # default

\* The predicate without the stroke colour of the extras.
is_custom_font_no_stroke(f, e) ==
    LET custom_extras ==
            \/ ExtraPresentAndNot(e, "episode_text_color", SERIES_COUNT_TEXT_COLOR)
            \/ ExtraPresentAndNot(e, "episode_text_font_size", ONE)
    IN  \/ custom_extras
        \/ f.color # TITLE_COLOR
        \/ f.file # TITLE_FONT
        \/ f.interline_spacing # 0
        \/ f.interword_spacing # 0
        \/ f.kerning # ONE
        \/ f.size # ONE
        \/ f.stroke_width # ONE
        \/ f.vertical_shift # 0

\* Lines 167-199
is_custom_font(f, e) ==
    LET custom_extras ==
            \/ ExtraPresentAndNot(e, "episode_text_color", SERIES_COUNT_TEXT_COLOR)
            \/ ExtraPresentAndNot(e, "episode_text_font_size", ONE)
            \/ ExtraPresentAndNot(e, "stroke_color", "black")
    IN  \/ custom_extras
        \/ f.color # TITLE_COLOR
        \/ f.file # TITLE_FONT
        \/ f.interline_spacing # 0
        \/ f.interword_spacing # 0
        \/ f.kerning # ONE
        \/ f.size # ONE
        \/ f.stroke_width # ONE
        \/ f.vertical_shift # 0

\* ------------------------------------------------------------ the inputs
\* Space-free pieces the episode texts are made of
Words == { <<>>, <<"s">>, <<"z", "e", "r", "o">> }

\* Every text of one to five pieces joined by single spaces (the empty
\* text, texts with leading, trailing and doubled spaces, texts of fewer than
\* five pieces), each also followed by up to MaxExtra further " s"
EpisodeTexts ==
    { join(SPACE, ws \o [i \in 1..k |-> <<"s">>]) :
        ws \in UNION { [1..n -> Words] : n \in 1..5 }, k \in 0..MaxExtra }

\* The style arguments of __init__: the defaults, and a customised card
Styles ==
    { [title_text |-> <<"T">>, font_color |-> TITLE_COLOR, font_file |-> TITLE_FONT,
       font_interline_spacing |-> 0, font_interword_spacing |-> 0,
       title_interline_spacing |-> -50, font_kerning |-> ONE, font_size |-> ONE,
       font_stroke_width |-> ONE, font_vertical_shift |-> 0,
       blur |-> FALSE, grayscale |-> FALSE, stroke_color |-> STROKE_COLOR,
       episode_text_color |-> SERIES_COUNT_TEXT_COLOR, episode_text_font_size |-> ONE],
      [title_text |-> <<"s", " ", "t">>, font_color |-> "red", font_file |-> "custom.ttf",
       font_interline_spacing |-> 10, font_interword_spacing |-> -5,
       title_interline_spacing |-> -50, font_kerning |-> 150, font_size |-> 80,
       font_stroke_width |-> 200, font_vertical_shift |-> 7,
       blur |-> TRUE, grayscale |-> TRUE, stroke_color |-> "red",
       episode_text_color |-> "blue", episode_text_font_size |-> 120] }

\* Lines 138-163: the instance __init__ leaves behind (the texts are the
\* ones escape_chars returned)
NewCard(style, episode_text, hide_season_text, hide_episode_text, omit_gradient) ==
    [source_file |-> "source.jpg", output_file |-> "card.jpg",
     title_text |-> style.title_text,
     season_text |-> <<>>,
     episode_text |-> episode_text,
     hide_season_text |-> hide_season_text,
     hide_episode_text |-> hide_episode_text,
     font_color |-> style.font_color,
     font_file |-> style.font_file,
     font_kerning |-> style.font_kerning,
     font_interline_spacing |-> style.font_interline_spacing,
     font_interword_spacing |-> style.font_interword_spacing,
     title_interline_spacing |-> style.title_interline_spacing,
     font_size |-> style.font_size,
     font_stroke_width |-> style.font_stroke_width,
     font_vertical_shift |-> style.font_vertical_shift,
     blur |-> style.blur, grayscale |-> style.grayscale,
     omit_gradient |-> omit_gradient,
     stroke_color |-> style.stroke_color,
     episode_text_color |-> style.episode_text_color,
     episode_text_font_size |-> style.episode_text_font_size]

NoLabels ==
    [top_line |-> <<>>, season_prefix |-> <<>>, season_number |-> <<>>,
     separator |-> <<>>, episode_prefix |-> <<>>, episode_number |-> <<>>]

\* The Font arguments of is_custom_font: each attribute at its default or not
Fonts ==
    [color : {TITLE_COLOR, "red"}, file : {TITLE_FONT, "custom.ttf"},
     interline_spacing : {0, 10}, interword_spacing : {0, -5},
     kerning : {ONE, 150}, size : {ONE, 80},
     stroke_width : {ONE, 200}, vertical_shift : {0, 7}]

DefaultFont ==
    [color |-> TITLE_COLOR, file |-> TITLE_FONT,
     interline_spacing |-> 0, interword_spacing |-> 0,
     kerning |-> ONE, size |-> ONE, stroke_width |-> ONE, vertical_shift |-> 0]

\* One key of an extras dict: absent when vals is empty
Entry(key, vals) == [k \in {x \in {key} : vals # {}} |-> CHOOSE v \in vals : TRUE]

\* The extras dicts: each of the three keys absent, at its default, or not
ExtrasDicts ==
    { Entry("episode_text_color", c) @@ Entry("episode_text_font_size", z)
        @@ Entry("stroke_color", k) :
        c \in { {}, {SERIES_COUNT_TEXT_COLOR}, {"blue"} },
        z \in { {}, {ONE}, {120} },
        k \in { {}, {"black"}, {"red"} } }

\* ----------------------------------------------------------- the actions
NoCall == [called |-> FALSE, ret |-> FALSE]

FontIdle ==
    /\ font = DefaultFont
    /\ extras = <<>>
    /\ custom = NoCall

\* A card after __init__, nothing evaluated yet
Init ==
    /\ \E style \in Styles, text \in EpisodeTexts,
          hs \in BOOLEAN, he \in BOOLEAN, og \in BOOLEAN :
            self = NewCard(style, text, hs, he, og)
    /\ constructed = self
    /\ labels = NoLabels
    /\ text_commands = <<>>
    /\ command = <<>>
    /\ builds = 0
    /\ FontIdle

\* A caller reads the property format_text_commands
Build ==
    /\ builds < MaxBuilds
    /\ \E r \in {format_text_commands(self)} :
        /\ self' = [self EXCEPT !.hide_episode_text = r.hide_episode_text]
        /\ labels' = r.labels
        /\ text_commands' = r.ret
    /\ builds' = builds + 1
    /\ UNCHANGED <<constructed, command, font, extras, custom>>

\* Lines 365-385: create() reads resize_and_style, gradient_command,
\* format_text_commands and resize_output in that order and runs the command
Create ==
    /\ builds < MaxBuilds
    /\ \E r \in {format_text_commands(self)} :
        /\ self' = [self EXCEPT !.hide_episode_text = r.hide_episode_text]
        /\ labels' = r.labels
        /\ text_commands' = r.ret
        /\ command' = CommandList(self, r.ret)
    /\ builds' = builds + 1
    /\ UNCHANGED <<constructed, font, extras, custom>>

Next == Build \/ Create

Spec == Init /\ [][Next]_vars

\* is_custom_font is static: it is called with a Font and an extras dict and
\* touches no card
InitFont ==
    /\ self = NewCard(CHOOSE s \in Styles : s.font_color = TITLE_COLOR, <<>>,
                      FALSE, FALSE, FALSE)
    /\ constructed = self
    /\ labels = NoLabels
    /\ text_commands = <<>>
    /\ command = <<>>
    /\ builds = 0
    /\ FontIdle

IsCustomFont ==
    /\ ~custom.called
    /\ \E f \in Fonts, e \in ExtrasDicts :
        /\ font' = f
        /\ extras' = e
        /\ custom' = [called |-> TRUE, ret |-> is_custom_font(f, e)]
    /\ UNCHANGED <<self, constructed, labels, text_commands, command, builds>>

NextFont == IsCustomFont

SpecFont == InitFont /\ [][NextFont]_vars

\* ------------------------------------------------ reading a command list
IsOpt(o, opt) == o[1] = opt

\* positions of the elements with option opt
Positions(ops, opt) == { i \in 1..Len(ops) : IsOpt(ops[i], opt) }

\* the first position from i on that holds option opt, 0 when there is none
RECURSIVE NextPos(_, _, _)
NextPos(ops, opt, i) ==
    IF i > Len(ops) THEN 0
    ELSE IF IsOpt(ops[i], opt) THEN i
    ELSE NextPos(ops, opt, i + 1)

\* the position of the n-th element with option opt
RECURSIVE NthPos(_, _, _, _)
NthPos(ops, opt, n, from) ==
    LET i == NextPos(ops, opt, from) IN
    IF n = 1 \/ i = 0 THEN i ELSE NthPos(ops, opt, n - 1, i + 1)

\* the texts of the labels of a list, in list order
LabelTexts(ops) ==
    LET ls == SelectSeq(ops, LAMBDA o : IsOpt(o, "label:")) IN
    [i \in 1..Len(ls) |-> ls[i][2]]

\* The scope the second "\(" opens and the first "\)" closes: season & episode
SeasonScope(ops) ==
    SubSeq(ops, NthPos(ops, "\\(", 2, 1), NthPos(ops, "\\)", 1, 1))

\* The scope the third "\(" opens and the second "\)" closes: main text
TitleScope(ops) ==
    SubSeq(ops, NthPos(ops, "\\(", 3, 1), NthPos(ops, "\\)", 2, 1))

\* what follows the main text scope
AfterTitleScope(ops) ==
    SubSeq(ops, NthPos(ops, "\\)", 2, 1) + 1, Len(ops))

\* the argument of the last opt before position p
RECURSIVE SettingAt(_, _, _)
SettingAt(ops, opt, p) ==
    IF IsOpt(ops[p - 1], opt) THEN ops[p - 1][2] ELSE SettingAt(ops, opt, p - 1)

Built == builds >= 1

\* the pieces of the upper-cased text, cut at no more than four single spaces
Tokens == split(upper(self.episode_text), SPACE, 4)
FiveNonEmptyTokens == Len(Tokens) = 5 /\ \A i \in 1..5 : Tokens[i] # <<>>

\* ------------------------------------------------------------- the claims

\* C1: the parser yields Standard, holding the five tokens in order, if and
\* only if the upper-cased text splits into exactly five non-empty tokens;
\* every other text yields Fallback holding the whole upper-cased text and
\* the layout runs in the single-line mode.
C1_StandardIffFiveNonEmpty ==
    Built =>
        /\ FiveNonEmptyTokens <=>
              /\ StandardCase(labels)
              /\ <<labels.season_prefix, labels.season_number, labels.separator,
                   labels.episode_prefix, labels.episode_number>> = Tokens
        /\ ~FiveNonEmptyTokens =>
              /\ labels.top_line = upper(self.episode_text)
              /\ ~StandardCase(labels)

C3_FallbackLineIsLabelled ==
    (Built /\ ~StandardCase(labels)) =>
        LabelTexts(SeasonScope(text_commands)) = <<labels.top_line>>

\* C4: building the command lists and running create() leave every field of
\* the instance as __init__ set it.
C4_RequestUnchanged == self = constructed

\* C5: in the command create() assembles the gradient image with its
\* composite is absent when omit_gradient is true, and otherwise occurs
\* exactly once, right after the resize/style pass and right before the
\* first element of the text layout.
C5_GradientOnceOrAbsent ==
    command # <<>> =>
        LET g == { i \in Positions(command, "image") : command[i][2] = GRADIENT_IMAGE }
            first_text == NthPos(command, "\\(", 1, 1) - 1
        IN  IF self.omit_gradient
            THEN /\ g = {}
                 /\ Cardinality(Positions(command, "-composite")) = 2
                 /\ SubSeq(command, 2, first_text - 1) = resize_and_style(self)
            ELSE /\ Cardinality(g) = 1
                 /\ \A i \in g :
                       /\ command[i + 1] = <<"-composite">>
                       /\ SubSeq(command, 2, i - 1) = resize_and_style(self)
                       /\ first_text = i + 2
                 /\ Cardinality(Positions(command, "-composite")) = 3

C5_Witness ==
    /\ command # <<>>
    /\ ~self.omit_gradient
    /\ self.blur
    /\ command[5] = <<"image", GRADIENT_IMAGE>>

\* the fields of an is_custom_font call that differ from their defaults
Perturbed ==
    { k \in {"color"} : font.color # TITLE_COLOR }
    \cup { k \in {"file"} : font.file # TITLE_FONT }
    \cup { k \in {"interline_spacing"} : font.interline_spacing # 0 }
    \cup { k \in {"interword_spacing"} : font.interword_spacing # 0 }
    \cup { k \in {"kerning"} : font.kerning # ONE }
    \cup { k \in {"size"} : font.size # ONE }
    \cup { k \in {"stroke_width"} : font.stroke_width # ONE }
    \cup { k \in {"vertical_shift"} : font.vertical_shift # 0 }
    \cup { k \in DOMAIN extras \cap {"episode_text_color"} :
              extras[k] # SERIES_COUNT_TEXT_COLOR }
    \cup { k \in DOMAIN extras \cap {"episode_text_font_size"} : extras[k] # ONE }
    \cup { k \in DOMAIN extras \cap {"stroke_color"} : extras[k] # "black" }

\* C6: is_custom_font returns false when each of the eleven fields is at its
\* default (an extra absent or at its default), and true when exactly one of
\* them differs, whichever it is.
C6_CustomFontDefaultsAndSinglePerturbation ==
    custom.called =>
        /\ Perturbed = {} => ~custom.ret
        /\ Cardinality(Perturbed) = 1 => custom.ret

C6_Witness ==
    /\ custom.called
    /\ Perturbed = {"stroke_color"}
    /\ "episode_text_color" \in DOMAIN extras
    /\ custom.ret

\* C7: a season/episode scope (with its smush 40) that is present holds at
\* least one label, and none is present for a Standard label with both hide
\* flags true.
C7_GroupOnlyWithLabels ==
    Built =>
        LET present == Positions(text_commands, "+smush") # {} IN
        /\ present => Len(LabelTexts(SeasonScope(text_commands))) >= 1
        /\ (StandardCase(labels) /\ self.hide_season_text /\ self.hide_episode_text)
              => ~present

\* C8: for a Standard label whose season number is not "ZERO" the labels of
\* the season/episode group are, in this order, prefix and number of the
\* season iff hide_season_text is false, the separator iff both flags are
\* false, prefix and number of the episode iff hide_episode_text is false;
\* the group ends with its one smush of gap 40.
C8_GroupLabelsFollowFlags ==
    (Built /\ StandardCase(labels) /\ labels.season_number # ZERO) =>
        \A scope \in {SeasonScope(text_commands)} :
        /\ LabelTexts(scope) =
              (IF ~self.hide_season_text
               THEN <<labels.season_prefix, labels.season_number>> ELSE <<>>)
              \o (IF ~self.hide_season_text /\ ~self.hide_episode_text
                  THEN <<labels.separator>> ELSE <<>>)
              \o (IF ~self.hide_episode_text
                  THEN <<labels.episode_prefix, labels.episode_number>> ELSE <<>>)
        /\ Positions(scope, "+smush") = {Len(scope) - 1}
        /\ scope[Len(scope) - 1] = <<"+smush", 40>>

C8_Witness ==
    /\ Built /\ StandardCase(labels)
    /\ labels.season_number = <<"S">>
    /\ labels.separator = <<>>
    /\ labels.episode_number = <<"Z", "E", "R", "O", " ", "S">>
    /\ ~self.hide_season_text /\ ~self.hide_episode_text
    /\ Len(LabelTexts(SeasonScope(text_commands))) = 5

\* C9: the title group holds exactly two labels, both the title text; the
\* first is typeset with fill and stroke the stroke colour and stroke width
\* 12, the second with fill and stroke the font colour and stroke width 0;
\* one composite follows them inside the group, and after the group come
\* the merge smush of gap 50 and the southwest composite at +150+100.
C9_TitleStrokeThenFill ==
    Built =>
        \A scope \in {TitleScope(text_commands)} :
        \A p1 \in {NthPos(scope, "label:", 1, 1)} :
        \A p2 \in {NthPos(scope, "label:", 2, 1)} :
        /\ Cardinality(Positions(scope, "label:")) = 2
        /\ scope[p1][2] = self.title_text /\ scope[p2][2] = self.title_text
        /\ SettingAt(scope, "-fill", p1) = self.stroke_color
        /\ SettingAt(scope, "-stroke", p1) = self.stroke_color
        /\ SettingAt(scope, "-strokewidth", p1) = 12
        /\ SettingAt(scope, "-fill", p2) = self.font_color
        /\ SettingAt(scope, "-stroke", p2) = self.font_color
        /\ SettingAt(scope, "-strokewidth", p2) = 0
        /\ p1 < p2
        /\ Positions(scope, "-composite") = {Len(scope) - 1}
        /\ p2 < Len(scope) - 1
        /\ AfterTitleScope(text_commands) =
              << <<"-gravity", "west">>, <<"-smush", 50>>, <<"\\)">>,
                 <<"-gravity", "southwest">>, <<"-geometry", "+150+100">>,
                 <<"-composite">> >>

C9_Witness ==
    /\ Built
    /\ self.stroke_color # self.font_color
    /\ Len(LabelTexts(TitleScope(text_commands))) = 2

\* C10: a second or later evaluation of format_text_commands on one instance
\* returns the list the evaluation before it returned.
C10_BuildRepeatable ==
    [][(builds >= 1 /\ builds' = builds + 1) => text_commands' = text_commands]_vars

C10_Witness ==
    /\ builds >= 2
    /\ StandardCase(labels) /\ labels.season_number = ZERO
    /\ ~self.hide_season_text
    /\ ~constructed.hide_episode_text
    /\ LabelTexts(SeasonScope(text_commands)) = <<SPECIAL>>

====
